---------------------------- MODULE Spec2Model ----------------------------
(***************************************************************************)
(* Model of the Admin Helper content script: QueryResult / Xpath, the      *)
(* Template engine, the Highlight and Summarize hooks, and the AdminHelper *)
(* dispatcher.                                                             *)
(*                                                                         *)
(* JavaScript strings are sequences of one-character strings, so that      *)
(* escaping, placeholder replacement and the note pattern are computed     *)
(* character by character as the code computes them.                       *)
(***************************************************************************)
EXTENDS Integers, Sequences, FiniteSets, TLC

(***************************************************************************)
(* Bind(x, F) is F(x) with x evaluated once, the way a JavaScript local    *)
(* variable holds a value: "var v = x; ... v ... v ..." is                 *)
(* Bind(x, LAMBDA v : ... v ... v ...).                                    *)
(***************************************************************************)
Bind(x, F(_)) == CHOOSE r \in {F(v) : v \in {x}} : TRUE

(***************************************************************************)
(* String helpers                                                          *)
(***************************************************************************)

\* s has the characters of p at index i (1-based)
MatchAt(s, p, i) ==
    /\ i >= 1
    /\ i + Len(p) - 1 <= Len(s)
    /\ \A j \in 1..Len(p) : s[i + j - 1] = p[j]

Contains(s, p) == \E i \in 1..Len(s) : MatchAt(s, p, i)

\* the first index >= i where p occurs in s, or 0 (recursion below goes from
\* one occurrence to the next, not from one character to the next)
NextMatch(s, p, i) ==
    IF \E j \in i..Len(s) : MatchAt(s, p, j)
    THEN CHOOSE j \in i..Len(s) :
           MatchAt(s, p, j) /\ \A m \in i..(j - 1) : ~ MatchAt(s, p, m)
    ELSE 0

Digits == {"0", "1", "2", "3", "4", "5", "6", "7", "8", "9"}

DigitVal(c) == CASE c = "0" -> 0 [] c = "1" -> 1 [] c = "2" -> 2 [] c = "3" -> 3
                 [] c = "4" -> 4 [] c = "5" -> 5 [] c = "6" -> 6 [] c = "7" -> 7
                 [] c = "8" -> 8 [] c = "9" -> 9

DigitChar(d) == CASE d = 0 -> "0" [] d = 1 -> "1" [] d = 2 -> "2" [] d = 3 -> "3"
                  [] d = 4 -> "4" [] d = 5 -> "5" [] d = 6 -> "6" [] d = 7 -> "7"
                  [] d = 8 -> "8" [] d = 9 -> "9"

(***************************************************************************)
(* String.prototype.replace(regexp /.../g, replacementString), for a       *)
(* pattern that is a literal character sequence.  The replacement string   *)
(* is expanded by GetSubstitution: $$, $&, $ before a backquote and $      *)
(* before an apostrophe are special; the patterns used here have no        *)
(* capture groups, so $1..$99 and $< stay literal.                         *)
(***************************************************************************)
\* the backquote character (U+0060); a TLA+ string literal cannot hold it, so
\* this token stands for it wherever a string is listed character by character
Backquote == "BACKQUOTE"

RECURSIVE GetSubstitutionFrom(_, _, _, _, _)
GetSubstitutionFrom(matched, str, position, replacement, i) ==
    Bind(NextMatch(replacement, <<"$">>, i), LAMBDA d :
        IF d = 0 THEN SubSeq(replacement, i, Len(replacement))
        ELSE IF d < Len(replacement)
                  /\ replacement[d + 1] \in {"$", "&", Backquote, "'"}
             THEN LET c   == replacement[d + 1]
                      ins == CASE c = "$" -> <<"$">>
                               [] c = "&" -> matched
                               [] c = Backquote -> SubSeq(str, 1, position - 1)
                               [] c = "'" -> SubSeq(str, position + Len(matched), Len(str))
                  IN  SubSeq(replacement, i, d - 1) \o ins
                        \o GetSubstitutionFrom(matched, str, position, replacement, d + 2)
             ELSE SubSeq(replacement, i, d)
                    \o GetSubstitutionFrom(matched, str, position, replacement, d + 1))

GetSubstitution(matched, str, position, replacement) ==
    GetSubstitutionFrom(matched, str, position, replacement, 1)

\* all non-overlapping matches, left to right, each expanded against the
\* original string
RECURSIVE ReplaceFrom(_, _, _, _)
ReplaceFrom(str, pat, replacement, i) ==
    Bind(NextMatch(str, pat, i), LAMBDA j :
        IF j = 0 THEN SubSeq(str, i, Len(str))
        ELSE SubSeq(str, i, j - 1) \o GetSubstitution(pat, str, j, replacement)
               \o ReplaceFrom(str, pat, replacement, j + Len(pat)))

ReplaceAll(str, pat, replacement) ==
    Bind(str, LAMBDA s : Bind(replacement, LAMBDA r : ReplaceFrom(s, pat, r, 1)))

(***************************************************************************)
(* Template._escape                                                        *)
(***************************************************************************)
ENT_AMP  == <<"&", "a", "m", "p", ";">>
ENT_QUOT == <<"&", "q", "u", "o", "t", ";">>
ENT_APOS == <<"&", "#", "3", "9", ";">>
ENT_LT   == <<"&", "l", "t", ";">>
ENT_GT   == <<"&", "g", "t", ";">>
ENT_SOL  == <<"&", "#", "x", "2", "F", ";">>

\* a plausible slip: the ampersand replaced last, so the entities written by
\* the earlier replacements are escaped a second time
EscapeAmpLast(html) ==
    ReplaceAll(
     ReplaceAll(
      ReplaceAll(
       ReplaceAll(
        ReplaceAll(
         ReplaceAll(html, <<"\"">>, ENT_QUOT),
         <<"'">>, ENT_APOS),
        <<"<">>, ENT_LT),
       <<">">>, ENT_GT),
      <<"/">>, ENT_SOL),
     <<"&">>, ENT_AMP)

Escape(html) ==
    ReplaceAll(
     ReplaceAll(
      ReplaceAll(
       ReplaceAll(
        ReplaceAll(
         ReplaceAll(html, <<"&">>, ENT_AMP),
         <<"\"">>, ENT_QUOT),
        <<"'">>, ENT_APOS),
       <<"<">>, ENT_LT),
      <<">">>, ENT_GT),
     <<"/">>, ENT_SOL)

(***************************************************************************)
(* JavaScript objects used as mappings.  An object is the sequence of its  *)
(* own properties [k, v] in insertion order.  for-in enumerates the        *)
(* integer-like keys first, in ascending numeric order, then the other     *)
(* keys in insertion order.                                                *)
(***************************************************************************)
S_hasOwnProperty == <<"h", "a", "s", "O", "w", "n", "P", "r", "o", "p", "e", "r", "t", "y">>
S_toString       == <<"t", "o", "S", "t", "r", "i", "n", "g">>
S_constructor    == <<"c", "o", "n", "s", "t", "r", "u", "c", "t", "o", "r">>
S_valueOf        == <<"v", "a", "l", "u", "e", "O", "f">>

\* names every object inherits a function for from Object.prototype
ObjectPrototypeMethods == {S_hasOwnProperty, S_toString, S_constructor, S_valueOf}

HasOwn(obj, k) == \E i \in 1..Len(obj) : obj[i].k = k

Get(obj, k) == obj[CHOOSE i \in 1..Len(obj) : obj[i].k = k].v

IsDecimalDigits(s) == Len(s) >= 1 /\ \A i \in 1..Len(s) : s[i] \in Digits

\* canonical array index: decimal digits without a leading zero
IsIntegerKey(s) == IsDecimalDigits(s) /\ (Len(s) = 1 \/ s[1] # "0")

RECURSIVE NumVal(_)
NumVal(s) == IF s = << >> THEN 0
             ELSE 10 * NumVal(SubSeq(s, 1, Len(s) - 1)) + DigitVal(s[Len(s)])

RECURSIVE SortKeys(_)
SortKeys(S) ==
    IF S = {} THEN << >>
    ELSE Bind(CHOOSE x \in S : \A y \in S : NumVal(x) <= NumVal(y), LAMBDA m :
              Bind(S \ {m}, LAMBDA rest : <<m>> \o SortKeys(rest)))

RECURSIVE InsertionKeys(_)
InsertionKeys(obj) ==
    IF obj = << >> THEN << >>
    ELSE (IF IsIntegerKey(obj[1].k) THEN << >> ELSE <<obj[1].k>>)
           \o InsertionKeys(Tail(obj))

ForInKeys(obj) ==
    Bind(obj, LAMBDA o :
        SortKeys({o[i].k : i \in {j \in 1..Len(o) : IsIntegerKey(o[j].k)}})
          \o InsertionKeys(o))

(***************************************************************************)
(* Template.render and Template.renderObject.  A result is [err, out]:     *)
(* err is "none", or the exception that left the function.                 *)
(*                                                                         *)
(* new RegExp('{' + key + '}', 'g'): for the keys modelled (letters and    *)
(* digits only) the pattern matches the literal text {key}, except that a  *)
(* key of decimal digits makes {n} a quantifier with nothing to repeat,    *)
(* which is a SyntaxError.                                                 *)
(***************************************************************************)
Ok(s)    == [err |-> "none", out |-> s]
Throw(e) == [err |-> e, out |-> << >>]

Placeholder(key) == <<"{">> \o key \o <<"}">>

\* data.hasOwnProperty(key) calls whatever data.hasOwnProperty is: an own
\* property of that name (a string value here) is not callable
HasOwnPropertyCallThrows(data) == HasOwn(data, S_hasOwnProperty)

RECURSIVE RenderLoop(_, _, _, _)
RenderLoop(template, data, raw, keys) ==
    IF keys = << >> THEN Ok(template)
    ELSE IF HasOwnPropertyCallThrows(data) THEN Throw("TypeError")
    ELSE LET key   == keys[1]
             value == IF raw THEN Get(data, key) ELSE Escape(Get(data, key))
         IN  IF IsDecimalDigits(key) THEN Throw("SyntaxError")
             ELSE Bind(ReplaceAll(template, Placeholder(key), value), LAMBDA t :
                       Bind(Tail(keys), LAMBDA rest : RenderLoop(t, data, raw, rest)))

Render(template, data, raw) ==
    Bind(template, LAMBDA t : Bind(data, LAMBDA d :
        Bind(ForInKeys(d), LAMBDA keys : RenderLoop(t, d, raw, keys))))

S_key   == <<"k", "e", "y">>
S_value == <<"v", "a", "l", "u", "e">>

RECURSIVE RenderObjectLoop(_, _, _, _, _)
RenderObjectLoop(template, data, raw, keys, output) ==
    IF keys = << >> THEN Ok(output)
    ELSE IF HasOwnPropertyCallThrows(data) THEN Throw("TypeError")
    ELSE Bind(Render(template,
                     << [k |-> S_key, v |-> keys[1]],
                        [k |-> S_value, v |-> Get(data, keys[1])] >>,
                     raw),
              LAMBDA r :
                IF r.err # "none" THEN r
                ELSE Bind(output \o r.out, LAMBDA o : Bind(Tail(keys), LAMBDA rest :
                          RenderObjectLoop(template, data, raw, rest, o))))

RenderObject(template, data, raw) ==
    Bind(template, LAMBDA t : Bind(data, LAMBDA d :
        Bind(ForInKeys(d), LAMBDA keys : RenderObjectLoop(t, d, raw, keys, << >>))))

(***************************************************************************)
(* Numbers.  The hours values of the model are decimal texts with at most  *)
(* two fraction digits, so a number is kept exactly as an integer count of *)
(* hundredths; a JavaScript value held in the totals object is             *)
(*   [t |-> "num", n |-> hundredths]   a finite number                     *)
(*   [t |-> "nan", n |-> 0]            NaN                                 *)
(*   [t |-> "str", n |-> 0]            a string (the result of + on a      *)
(*                                     function or object and a number)    *)
(***************************************************************************)
Num(n) == [t |-> "num", n |-> n]
NaN    == [t |-> "nan", n |-> 0]
StrVal == [t |-> "str", n |-> 0]

WhiteSpace == {" ", "\t", "\n"}

RECURSIVE TrimLeft(_)
TrimLeft(s) == IF s # << >> /\ s[1] \in WhiteSpace THEN TrimLeft(Tail(s)) ELSE s

RECURSIVE TrimRight(_)
TrimRight(s) == IF s # << >> /\ s[Len(s)] \in WhiteSpace
                THEN TrimRight(SubSeq(s, 1, Len(s) - 1)) ELSE s

\* the fraction digits as hundredths
FractionVal(f) == IF Len(f) = 0 THEN 0
                  ELSE IF Len(f) = 1 THEN 10 * DigitVal(f[1])
                  ELSE 10 * DigitVal(f[1]) + DigitVal(f[2])

\* textContent * 1: ToNumber of a string.  White space is trimmed, the empty
\* string is 0, an unsigned decimal literal is its value, anything else NaN.
ToNumber(text) ==
    Bind(TrimRight(TrimLeft(text)), LAMBDA s :
    Bind(IF NextMatch(s, <<".">>, 1) = 0 THEN Len(s) + 1 ELSE NextMatch(s, <<".">>, 1),
         LAMBDA dot :
    Bind(SubSeq(s, 1, dot - 1), LAMBDA ip :
    Bind(SubSeq(s, dot + 1, Len(s)), LAMBDA fp :
        IF s = << >> THEN Num(0)
        ELSE IF /\ \A i \in 1..Len(ip) : ip[i] \in Digits
                /\ \A i \in 1..Len(fp) : fp[i] \in Digits
                /\ Len(ip) + Len(fp) >= 1
             THEN Num(100 * NumVal(ip) + FractionVal(fp))
             ELSE NaN))))

RECURSIVE NatToString(_)
NatToString(n) == IF n < 10 THEN <<DigitChar(n)>>
                  ELSE NatToString(n \div 10) \o <<DigitChar(n % 10)>>

\* Number.prototype.toFixed(2)
ToFixed2(v) ==
    IF v.t = "nan" THEN <<"N", "a", "N">>
    ELSE NatToString(v.n \div 100)
           \o <<".", DigitChar((v.n % 100) \div 10), DigitChar(v.n % 10)>>

\* a + b of the += in Summarize.run: b is always a number or NaN
Plus(a, b) == IF a.t = "str" THEN StrVal
              ELSE IF a.t = "nan" \/ b.t = "nan" THEN NaN
              ELSE Num(a.n + b.n)

(***************************************************************************)
(* The note pattern /(.+?): .+/ of Summarize.run, as String.match applies  *)
(* it: the leftmost start, then the shortest group 1, such that group 1 is *)
(* followed by ": " and at least one more character; "." matches any       *)
(* character but a line terminator.                                        *)
(***************************************************************************)
LineTerminators == {"\n", "\r"}

NoLineTerminator(s, a, b) == \A i \in a..b : s[i] \notin LineTerminators

\* group 1 is text[a..b]
LabelMatchAt(text, a, b) ==
    /\ 1 <= a /\ a <= b /\ b + 3 <= Len(text)
    /\ NoLineTerminator(text, a, b)
    /\ text[b + 1] = ":" /\ text[b + 2] = " "
    /\ text[b + 3] \notin LineTerminators

LabelMatches(text) ==
    \E a \in 1..Len(text) : \E b \in a..Len(text) : LabelMatchAt(text, a, b)

\* label[1] of a successful match
Label(text) ==
    Bind(text, LAMBDA t :
    Bind(CHOOSE x \in 1..Len(t) :
           /\ \E b \in x..Len(t) : LabelMatchAt(t, x, b)
           /\ \A y \in 1..(x - 1) : ~ \E b \in y..Len(t) : LabelMatchAt(t, y, b),
         LAMBDA a :
    Bind(CHOOSE x \in a..Len(t) :
           /\ LabelMatchAt(t, a, x)
           /\ \A y \in a..(x - 1) : ~ LabelMatchAt(t, a, y),
         LAMBDA b : SubSeq(t, a, b))))

(***************************************************************************)
(* Property access on the totals object of Summarize.run                   *)
(***************************************************************************)
S_proto == <<"_", "_", "p", "r", "o", "t", "o", "_", "_">>

Undefined == [t |-> "undefined", n |-> 0]

\* totals[k]: the own property, else what Object.prototype gives (a function,
\* or the prototype object for __proto__), else undefined
PropGet(obj, k) ==
    IF HasOwn(obj, k) THEN Get(obj, k)
    ELSE IF k \in ObjectPrototypeMethods \/ k = S_proto THEN [t |-> "inherited", n |-> 0]
    ELSE Undefined

\* totals[k] = v: __proto__ is an accessor that ignores a primitive
PropSet(obj, k, v) ==
    IF k = S_proto THEN obj
    ELSE IF HasOwn(obj, k)
         THEN [i \in 1..Len(obj) |-> IF obj[i].k = k THEN [k |-> k, v |-> v] ELSE obj[i]]
         ELSE Append(obj, [k |-> k, v |-> v])

\* the value an operand of + contributes: a function or object becomes a string
Operand(v) == IF v.t = "inherited" THEN StrVal ELSE v

(***************************************************************************)
(* The document.  A table row (a tr element) is                            *)
(*   [admin     : it matches AdminHelper.ADMIN_ROWS,                       *)
(*    hasNote   : Xpath.find(NOTE_CELL, row) is a node (else null),        *)
(*    note      : that cell's textContent,                                 *)
(*    hasHours  : Xpath.find(HOUR_CELL, row) is a node (else null),        *)
(*    hours     : that cell's textContent,                                 *)
(*    classList : the row's class tokens, an ordered set]                  *)
(* and rows are known by their position in document order.                 *)
(***************************************************************************)
HIGHLIGHT_CLASS == "admin_helper_highlight"
OUTPUT_ID       == "admin_helper"

\* document.evaluate(ADMIN_ROWS, document.body, null, ORDERED_NODE_SNAPSHOT_TYPE):
\* the matching rows in document order, fixed at evaluation
RECURSIVE Evaluate(_, _)
Evaluate(docRows, i) ==
    IF i > Len(docRows) THEN << >>
    ELSE (IF docRows[i].admin THEN <<i>> ELSE << >>) \o Evaluate(docRows, i + 1)

\* new QueryResult(result); id tells one instance from another
QueryResult(result, id) == [id |-> id, result |-> result, length |-> Len(result)]

FindAll(docRows, id) == QueryResult(Evaluate(docRows, 1), id)

\* a plausible slip: the loop index starting at 1, the first node never visited
ForEachNodesFromOne(q) == SubSeq(q.result, 2, Len(q.result))

\* the nodes QueryResult.forEach passes to its callback, in call order:
\* snapshotItem(i) for i = 0 .. snapshotLength - 1
ForEachNodes(q) == [i \in 1..Len(q.result) |-> q.result[i]]

\* QueryResult.map: the callback results, collected through forEach
Map(q, Callback(_)) == [i \in 1..Len(ForEachNodes(q)) |-> Callback(ForEachNodes(q)[i])]

\* QueryResult.all
All(q) == Map(q, LAMBDA item : item)

(***************************************************************************)
(* Highlight.run                                                           *)
(***************************************************************************)
Range(seq) == {seq[i] : i \in 1..Len(seq)}

\* a plausible slip: the class appended to the attribute without a look
ClassListAddAlways(classList, token) == Append(classList, token)

\* DOMTokenList.add
ClassListAdd(classList, token) ==
    IF token \in Range(classList) THEN classList ELSE Append(classList, token)

RECURSIVE HighlightEach(_, _)
HighlightEach(doc, nodes) ==
    IF nodes = << >> THEN doc
    ELSE Bind([doc EXCEPT ![nodes[1]].classList = ClassListAdd(@, HIGHLIGHT_CLASS)],
              LAMBDA d : Bind(Tail(nodes), LAMBDA rest : HighlightEach(d, rest)))

HighlightRun(doc, q) ==
    Bind(doc, LAMBDA d : Bind(ForEachNodes(q), LAMBDA nodes : HighlightEach(d, nodes)))

(***************************************************************************)
(* Summarize.run                                                           *)
(***************************************************************************)
\* the forEach callback of Summarize.run on one row; acc is [err, totals]:
\* null.textContent is a TypeError
SummarizeRow(acc, row) ==
    IF ~ row.hasNote THEN [acc EXCEPT !.err = "TypeError"]
    ELSE IF ~ LabelMatches(row.note) THEN acc
    ELSE IF ~ row.hasHours THEN [acc EXCEPT !.err = "TypeError"]
    ELSE Bind(Label(row.note), LAMBDA label :
         Bind(ToNumber(row.hours), LAMBDA hours :
         Bind(IF PropGet(acc.totals, label) = Undefined
              THEN PropSet(acc.totals, label, Num(0))
              ELSE acc.totals,
              LAMBDA t1 :
                [acc EXCEPT !.totals =
                    PropSet(t1, label, Plus(Operand(PropGet(t1, label)), hours))])))

\* rows.forEach(callback): acc.n counts the callback invocations; an exception
\* leaves the loop
RECURSIVE SummarizeEach(_, _, _)
SummarizeEach(acc, doc, nodes) ==
    IF nodes = << >> \/ acc.err # "none" THEN acc
    ELSE Bind([SummarizeRow(acc, doc[nodes[1]]) EXCEPT !.n = @ + 1], LAMBDA a :
              Bind(Tail(nodes), LAMBDA rest : SummarizeEach(a, doc, rest)))

\* Summarize._formatTotals
RECURSIVE FormatTotalsLoop(_, _, _)
FormatTotalsLoop(totals, keys, formatted) ==
    IF keys = << >> THEN [err |-> "none", obj |-> formatted]
    ELSE IF HasOwnPropertyCallThrows(totals) THEN [err |-> "TypeError", obj |-> << >>]
    ELSE Bind(Get(totals, keys[1]), LAMBDA v :
              IF v.t = "str" THEN [err |-> "TypeError", obj |-> << >>]
              ELSE Bind(PropSet(formatted, keys[1], ToFixed2(v)), LAMBDA f :
                        Bind(Tail(keys), LAMBDA rest : FormatTotalsLoop(totals, rest, f))))

FormatTotals(totals) ==
    Bind(totals, LAMBDA t : Bind(ForInKeys(t), LAMBDA keys : FormatTotalsLoop(t, keys, << >>)))

\* Summarize._shouldRender
ShouldRender(totals) == Len(totals) > 0

T_UL == <<"<", "u", "l", ">", "{", "i", "t", "e", "m", "s", "}", "<", "/", "u", "l", ">">>
T_LI == <<"<", "l", "i", ">", "{", "k", "e", "y", "}", ":", " ", "<", "s", "p", "a", "n", " ",
          "c", "l", "a", "s", "s", "=", "\"", "a", "d", "m", "i", "n", "_", "h", "e", "l", "p",
          "e", "r", "_", "h", "o", "u", "r", "s", "\"", ">", "{", "v", "a", "l", "u", "e", "}",
          "<", "/", "s", "p", "a", "n", ">">>
S_items == <<"i", "t", "e", "m", "s">>

\* Summarize._render: [err, insert, html]; insert says that a div with id
\* OUTPUT_ID and innerHTML html goes in right before the TARGET_OUTPUT node
SummarizeRender(totals, anchorExists) ==
    IF ~ (anchorExists /\ ShouldRender(totals))
    THEN [err |-> "none", insert |-> FALSE, html |-> << >>]
    ELSE Bind(FormatTotals(totals), LAMBDA f :
           IF f.err # "none" THEN [err |-> f.err, insert |-> FALSE, html |-> << >>]
           ELSE Bind(RenderObject(T_LI, f.obj, FALSE), LAMBDA items :
                  IF items.err # "none"
                  THEN [err |-> items.err, insert |-> FALSE, html |-> << >>]
                  ELSE Bind(Render(T_UL, << [k |-> S_items, v |-> items.out] >>, TRUE),
                            LAMBDA r :
                              [err |-> r.err, insert |-> r.err = "none", html |-> r.out])))

\* Summarize.run: [err, totals, n, looped, insert, html]; looped says that the
\* forEach loop ended without an exception
SummarizeRun(doc, anchorExists, q) ==
    Bind(ForEachNodes(q), LAMBDA nodes :
    Bind(SummarizeEach([err |-> "none", totals |-> << >>, n |-> 0], doc, nodes),
         LAMBDA acc :
        IF acc.err # "none"
        THEN [err |-> acc.err, totals |-> acc.totals, n |-> acc.n, looped |-> FALSE,
              insert |-> FALSE, html |-> << >>]
        ELSE Bind(SummarizeRender(acc.totals, anchorExists), LAMBDA r :
                  [err |-> r.err, totals |-> acc.totals, n |-> acc.n, looped |-> TRUE,
                   insert |-> r.insert, html |-> r.html])))

(***************************************************************************)
(* What the browser makes of the summary's innerHTML: the text of each li  *)
(* element, tags dropped and character references decoded.                 *)
(***************************************************************************)
Entities == << [e |-> ENT_AMP,  c |-> "&"],  [e |-> ENT_QUOT, c |-> "\""],
               [e |-> ENT_APOS, c |-> "'"],  [e |-> ENT_LT,   c |-> "<"],
               [e |-> ENT_GT,   c |-> ">"],  [e |-> ENT_SOL,  c |-> "/"] >>

EntityAt(s, i) == \E n \in 1..Len(Entities) : MatchAt(s, Entities[n].e, i)

WhichEntity(s, i) == Entities[CHOOSE n \in 1..Len(Entities) : MatchAt(s, Entities[n].e, i)]

RECURSIVE HtmlDecodeFrom(_, _)
HtmlDecodeFrom(s, i) ==
    Bind(NextMatch(s, <<"&">>, i), LAMBDA a :
        IF a = 0 THEN SubSeq(s, i, Len(s))
        ELSE IF EntityAt(s, a)
             THEN SubSeq(s, i, a - 1) \o <<WhichEntity(s, a).c>>
                    \o HtmlDecodeFrom(s, a + Len(WhichEntity(s, a).e))
             ELSE SubSeq(s, i, a) \o HtmlDecodeFrom(s, a + 1))

HtmlDecode(s) == Bind(s, LAMBDA t : HtmlDecodeFrom(t, 1))

TAG_LI == <<"<", "l", "i", ">">>

\* index of the ">" closing the tag opened at i, or Len(s) + 1
TagEnd(s, i) == IF \E j \in i..Len(s) : s[j] = ">"
                THEN CHOOSE j \in i..Len(s) : s[j] = ">" /\ \A m \in i..(j - 1) : s[m] # ">"
                ELSE Len(s) + 1

\* text goes to the li element that is open, if any
AddText(entries, text) ==
    IF entries = << >> THEN entries
    ELSE [entries EXCEPT ![Len(entries)] = @ \o text]

\* entries: the raw text of the li elements seen so far, the last one open
RECURSIVE ListItemsFrom(_, _, _)
ListItemsFrom(s, i, entries) ==
    Bind(NextMatch(s, <<"<">>, i), LAMBDA a :
        IF a = 0 THEN AddText(entries, SubSeq(s, i, Len(s)))
        ELSE Bind(AddText(entries, SubSeq(s, i, a - 1)), LAMBDA e :
                IF MatchAt(s, TAG_LI, a)
                THEN Bind(Append(e, << >>), LAMBDA e2 : ListItemsFrom(s, a + Len(TAG_LI), e2))
                ELSE Bind(TagEnd(s, a) + 1, LAMBDA j : ListItemsFrom(s, j, e))))

ListItemTexts(html) ==
    Bind(html, LAMBDA h : Bind(ListItemsFrom(h, 1, << >>), LAMBDA raw :
        [n \in 1..Len(raw) |-> HtmlDecode(raw[n])]))

(***************************************************************************)
(* State                                                                   *)
(***************************************************************************)
VARIABLES
    docRows,    \* the table rows of the document, in document order
    anchor,     \* whether the element with id TARGET_OUTPUT exists
    inserted,   \* innerHTML of the summary divs put before the anchor, in
                \* sibling order (the last one is the anchor's previous sibling)
    hooks,      \* the argument of AdminHelper.init
    pc,         \* where AdminHelper.init is
    hookIdx,    \* the hook hooks.forEach is at
    rows,       \* the QueryResult of _iterateRows
    nQueries,   \* evaluations of ADMIN_ROWS so far
    calls,      \* history: one record per hook.run call
    err,        \* the exception that left init, or "none"
    tT, tD, tRaw,   \* Template: the arguments template, data, raw
    tOut, tObj,     \* Template: the results of render and renderObject
    qlog, snap0     \* QueryResult: history of the method calls on rows, and
                    \* the rows that matched when rows was constructed

vars == <<docRows, anchor, inserted, hooks, pc, hookIdx, rows, nQueries, calls, err,
          tT, tD, tRaw, tOut, tObj, qlog, snap0>>

docVars      == <<docRows, anchor, inserted>>
dispatchVars == <<hooks, pc, hookIdx, rows, nQueries, calls, err>>
templateVars == <<tT, tD, tRaw, tOut, tObj>>
queryVars    == <<qlog, snap0>>

(***************************************************************************)
(* Inputs                                                                  *)
(***************************************************************************)
MaxRows == 2

N_Ax       == <<"A", ":", " ", "x">>
N_By       == <<"B", ":", " ", "y">>
N_Az       == <<"A", ":", " ", "z">>
N_misc     == <<"m", "i", "s", "c">>
N_value    == <<"{", "v", "a", "l", "u", "e", "}", ":", " ", "x">>
N_toString == <<"t", "o", "S", "t", "r", "i", "n", "g", ":", " ", "x">>
N_html     == <<"<", "b", ">", "&", ":", " ", "x">>
H_150      == <<"1", ".", "5">>
H_225      == <<"2", ".", "2", "5">>
H_075      == <<"0", ".", "7", "5">>
H_abc      == <<"a", "b", "c">>
\* an hours cell without text; a note cell whose text starts on a new line
H_empty    == << >>
N_nlBy     == <<"\n", "B", ":", " ", "y">>

Row(admin, hasNote, note, hasHours, hours, classList) ==
    [admin |-> admin, hasNote |-> hasNote, note |-> note,
     hasHours |-> hasHours, hours |-> hours, classList |-> classList]

AdminRow(note, hours) == Row(TRUE, TRUE, note, TRUE, hours, <<"entry">>)

RowKinds ==
    { AdminRow(N_Ax, H_150), AdminRow(N_By, H_225), AdminRow(N_misc, H_150),
      AdminRow(N_value, H_150), AdminRow(N_toString, H_150), AdminRow(N_html, H_150),
      AdminRow(N_By, H_abc), AdminRow(N_Az, H_empty), AdminRow(N_nlBy, H_150),
      \* already highlighted
      Row(TRUE, TRUE, N_Az, TRUE, H_075, <<HIGHLIGHT_CLASS, "entry">>),
      \* no notes cell; a labelled note without an hours cell
      Row(TRUE, FALSE, << >>, TRUE, H_150, <<"entry">>),
      Row(TRUE, TRUE, N_Ax, FALSE, << >>, <<"entry">>),
      \* not an ADMIN row
      Row(FALSE, TRUE, N_Ax, TRUE, H_150, <<"entry">>) }

SeqsUpTo(S, n) == UNION {[1..m -> S] : m \in 0..n}

\* hook objects: the two of the script, and one without a run function
HookLists ==
    { <<"Highlight", "Summarize">>, <<"Summarize", "Highlight">>,
      <<"Highlight", "Highlight">>, <<"Highlight", "NoRun", "Summarize">>,
      <<"NoRun", "Highlight", "Highlight", "Summarize">>, <<"Summarize">>, << >> }

NoResult == [err |-> "pending", out |-> << >>]

TemplateIdle ==
    /\ tT = << >> /\ tD = << >> /\ tRaw = FALSE /\ tOut = NoResult /\ tObj = NoResult

QueryIdle == qlog = << >> /\ snap0 = << >>

Init ==
    /\ docRows \in SeqsUpTo(RowKinds, MaxRows)
    /\ anchor \in BOOLEAN
    /\ inserted = << >>
    /\ hooks \in HookLists
    /\ pc = "init"
    /\ hookIdx = 0
    /\ rows = QueryResult(<< >>, 0)
    /\ nQueries = 0
    /\ calls = << >>
    /\ err = "none"
    /\ TemplateIdle
    /\ QueryIdle

(***************************************************************************)
(* AdminHelper.init / _iterateRows                                         *)
(***************************************************************************)
\* typeof hook.run === 'function'
HasRun(hook) == hook \in {"Highlight", "Summarize"}

\* a plausible slip: the row query evaluated again for each hook
HookRowsRequery(q, doc, i) == FindAll(doc, q.id + i)

\* the argument of hook.run(rows): the one QueryResult made before the loop
HookRows(q, doc, i) == q

\* var rows = Xpath.findAll(this.ADMIN_ROWS)
IterateRows ==
    /\ pc = "init"
    /\ rows' = FindAll(docRows, nQueries + 1)
    /\ nQueries' = nQueries + 1
    /\ hookIdx' = 1
    /\ pc' = "dispatch"
    /\ UNCHANGED <<docVars, hooks, calls, err, templateVars, queryVars>>

AtHook(kind) ==
    /\ pc = "dispatch"
    /\ hookIdx <= Len(hooks)
    /\ hooks[hookIdx] = kind

\* what the callbacks of a run saw and left, for the nodes they were given
CallRecord(kind, q, nodes, before, after, r) ==
    [hook |-> hookIdx, kind |-> kind, rowsId |-> q.id, rowsLength |-> q.length,
     visited |-> nodes,
     seenMarked |-> [i \in 1..Len(nodes) |-> HIGHLIGHT_CLASS \in Range(before[nodes[i]].classList)],
     classAfter |-> [i \in 1..Len(nodes) |-> after[nodes[i]].classList],
     rowsBefore |-> before, insertedBefore |-> inserted, sum |-> r]

NoSummary == [err |-> "none", totals |-> << >>, n |-> 0, looped |-> FALSE,
              insert |-> FALSE, html |-> << >>]

\* hook.run(rows) for Highlight
RunHighlight ==
    /\ AtHook("Highlight") /\ HasRun("Highlight")
    /\ \E q \in {HookRows(rows, docRows, hookIdx)} :
         \E after \in {HighlightRun(docRows, q)} :
           /\ docRows' = after
           /\ calls' = Append(calls, CallRecord("Highlight", q, ForEachNodes(q),
                                                docRows, after, NoSummary))
    /\ hookIdx' = hookIdx + 1
    /\ UNCHANGED <<anchor, inserted, hooks, pc, rows, nQueries, err, templateVars, queryVars>>

\* hook.run(rows) for Summarize; an exception leaves hooks.forEach and init
RunSummarize ==
    /\ AtHook("Summarize") /\ HasRun("Summarize")
    /\ \E q \in {HookRows(rows, docRows, hookIdx)} :
         \E r \in {SummarizeRun(docRows, anchor, q)} :
           /\ inserted' = IF r.insert THEN Append(inserted, r.html) ELSE inserted
           /\ calls' = Append(calls, CallRecord("Summarize", q,
                                                SubSeq(ForEachNodes(q), 1, r.n),
                                                docRows, docRows, r))
           /\ err' = r.err
           /\ pc' = IF r.err = "none" THEN pc ELSE "threw"
    /\ hookIdx' = hookIdx + 1
    /\ UNCHANGED <<docRows, anchor, hooks, rows, nQueries, templateVars, queryVars>>

\* a hook without a run function is passed over
SkipHook ==
    /\ pc = "dispatch"
    /\ hookIdx <= Len(hooks)
    /\ ~ HasRun(hooks[hookIdx])
    /\ hookIdx' = hookIdx + 1
    /\ UNCHANGED <<docVars, hooks, pc, rows, nQueries, calls, err, templateVars, queryVars>>

\* hooks.forEach is through; init returns
Return ==
    /\ pc = "dispatch"
    /\ hookIdx > Len(hooks)
    /\ pc' = "done"
    /\ UNCHANGED <<docVars, hooks, hookIdx, rows, nQueries, calls, err, templateVars, queryVars>>

Next == IterateRows \/ RunHighlight \/ RunSummarize \/ SkipHook \/ Return

Spec == Init /\ [][Next]_vars

(***************************************************************************)
(* Properties of the dispatcher and the hooks (specification Spec)         *)
(***************************************************************************)
CallsOf(kind) == {i \in 1..Len(calls) : calls[i].kind = kind}

Keys(obj) == {obj[i].k : i \in 1..Len(obj)}

\* the rows of a row set whose note cell exists and matches the label pattern
LabelledNodes(doc, nodes) ==
    {n \in Range(nodes) : doc[n].hasNote /\ LabelMatches(doc[n].note)}

ExpectedLabels(doc, nodes) == {Label(doc[n].note) : n \in LabelledNodes(doc, nodes)}

\* zero plus the hours of the rows of the set that carry the label, in order
RECURSIVE SumHours(_, _, _, _)
SumHours(doc, nodes, label, i) ==
    IF i = 0 THEN Num(0)
    ELSE IF nodes[i] \in LabelledNodes(doc, nodes) /\ Label(doc[nodes[i]].note) = label
         THEN Plus(SumHours(doc, nodes, label, i - 1), ToNumber(doc[nodes[i]].hours))
         ELSE SumHours(doc, nodes, label, i - 1)

\* C1: whenever Summarize.run has gone through its row set, the keys of the
\* totals it built are exactly the labels parsed from the matching notes, and
\* each label's total is zero plus the hours of the rows carrying that label,
\* whatever string the label is.
C1_TotalsPerLabel ==
    \A i \in CallsOf("Summarize") :
        calls[i].sum.looped =>
            /\ Keys(calls[i].sum.totals) = ExpectedLabels(calls[i].rowsBefore, rows.result)
            /\ \A L \in Keys(calls[i].sum.totals) :
                   Get(calls[i].sum.totals, L)
                     = SumHours(calls[i].rowsBefore, rows.result, L, Len(rows.result))

\* C2: a Summarize.run call raises no error when the anchor is absent or no
\* note matched; it puts the summary right before the anchor exactly when the
\* anchor exists and a label was aggregated, and otherwise changes nothing.
C2_InsertIffLabelAndAnchor ==
    \A i \in CallsOf("Summarize") :
        LET e      == calls[i]
            should == anchor /\ LabelledNodes(e.rowsBefore, rows.result) # {}
        IN  /\ e.sum.insert <=> should
            /\ ~ should => e.sum.err = "none"
            /\ i = Len(calls) =>
                 /\ docRows = e.rowsBefore
                 /\ inserted = IF should THEN Append(e.insertedBefore, e.sum.html)
                               ELSE e.insertedBefore

\* C3: an inserted summary has exactly one list entry per label of the totals,
\* and the entry of label L reads "L: " followed by L's total to two decimals,
\* whatever characters L holds.
C3_OneEntryPerLabel ==
    \A i \in CallsOf("Summarize") :
        calls[i].sum.insert =>
            LET items  == ListItemTexts(calls[i].sum.html)
                totals == calls[i].sum.totals
            IN  /\ Len(items) = Len(totals)
                /\ \A n \in 1..Len(totals) :
                       \E m \in 1..Len(items) :
                           items[m] = totals[n].k \o <<":", " ">> \o ToFixed2(totals[n].v)

\* a row that has its note cell, and its hours cell if the note is labelled
HasItsCells(row) == row.hasNote /\ (LabelMatches(row.note) => row.hasHours)

\* C4: a Summarize.run call over a row set ends, in totals, error and rendered
\* summary, exactly as the run over the same set without the rows that lack a
\* note cell or (with a labelled note) an hours cell.
C4_FieldlessRowsSkipped ==
    \A i \in CallsOf("Summarize") :
        LET e    == calls[i]
            kept == SelectSeq(rows.result, LAMBDA n : HasItsCells(e.rowsBefore[n]))
            ref  == SummarizeRun(e.rowsBefore, anchor, QueryResult(kept, rows.id))
        IN  /\ e.sum.err = ref.err
            /\ e.sum.totals = ref.totals
            /\ e.sum.insert = ref.insert
            /\ e.sum.html = ref.html

\* the hooks of the list that have a run function, by position
RECURSIVE CapableFrom(_)
CapableFrom(i) ==
    IF i > Len(hooks) THEN << >>
    ELSE (IF HasRun(hooks[i]) THEN <<i>> ELSE << >>) \o CapableFrom(i + 1)

Capable == CapableFrom(1)

Count(seq, x) == Cardinality({i \in 1..Len(seq) : seq[i] = x})

\* C10: every Highlight.run call reaches every node of the row set and leaves
\* each with the marker class exactly once; a later Highlight.run call leaves
\* the class lists as the first one left them.
C10_HighlightIdempotent ==
    \A i \in CallsOf("Highlight") :
        /\ calls[i].visited = rows.result
        /\ \A m \in 1..Len(calls[i].classAfter) :
               Count(calls[i].classAfter[m], HIGHLIGHT_CLASS) = 1
        /\ \A j \in CallsOf("Highlight") :
               j > i => calls[j].classAfter = calls[i].classAfter
        /\ \A m \in 1..rows.length :
               Count(docRows[rows.result[m]].classList, HIGHLIGHT_CLASS) = 1

\* Highlight.run has run twice over two rows, one highlighted before and one not
C10_Witness ==
    /\ Cardinality(CallsOf("Highlight")) = 2
    /\ rows.length = 2
    /\ \E i \in CallsOf("Highlight") :
           /\ \E m \in 1..2 : calls[i].seenMarked[m]
           /\ \E m \in 1..2 : ~ calls[i].seenMarked[m]

\* hours text that reads as a number: after trimming, digits with at most one
\* point among them
NumericText(text) ==
    LET s == TrimRight(TrimLeft(text))
    IN  /\ \E i \in 1..Len(s) : s[i] \in Digits
        /\ \A i \in 1..Len(s) : s[i] \in Digits \cup {"."}
        /\ Cardinality({i \in 1..Len(s) : s[i] = "."}) <= 1

\* the labels of a row set that some row carries with hours text that is not
\* numeric
PoisonedLabels(doc, nodes) ==
    { Label(doc[n].note) :
        n \in {m \in LabelledNodes(doc, nodes) :
                 doc[m].hasHours /\ ~ NumericText(doc[m].hours)} }

S_NaN == <<"N", "a", "N">>

\* C11: a Summarize.run call over a row set in which some row of label L has
\* hours text that is not numeric raises no error; L's total is NaN however
\* many other rows of L carry numeric hours, every other label's total is the
\* sum of its hours, and with the anchor present the summary is inserted and
\* shows "L: NaN".
C11_NonNumericHoursPoison ==
    \A i \in CallsOf("Summarize") :
        LET e        == calls[i]
            totals   == e.sum.totals
            poisoned == PoisonedLabels(e.rowsBefore, rows.result)
            others   == ExpectedLabels(e.rowsBefore, rows.result) \ poisoned
        IN  poisoned # {} =>
              /\ e.sum.err = "none"
              /\ \A L \in poisoned : HasOwn(totals, L) /\ Get(totals, L) = NaN
              /\ \A L \in others :
                     /\ HasOwn(totals, L)
                     /\ Get(totals, L)
                          = SumHours(e.rowsBefore, rows.result, L, Len(rows.result))
              /\ anchor =>
                     /\ e.sum.insert
                     /\ \A L \in poisoned :
                            \E m \in 1..Len(ListItemTexts(e.sum.html)) :
                                ListItemTexts(e.sum.html)[m] = L \o <<":", " ">> \o S_NaN

\* the text has a non-empty prefix text[1..b], then ": ", then more text
PrefixAt(text, b) ==
    /\ 1 <= b /\ b + 3 <= Len(text)
    /\ text[b + 1] = ":" /\ text[b + 2] = " "

HasLabelShape(text) == \E b \in 1..Len(text) : PrefixAt(text, b)

\* the text from its start up to the first ": " that leaves a prefix
LabelPrefix(text) ==
    SubSeq(text, 1, CHOOSE b \in 1..Len(text) :
                        /\ PrefixAt(text, b)
                        /\ \A c \in 1..(b - 1) : ~ PrefixAt(text, c))

\* the note texts Summarize.run has read in a call
NotesRead(e) == { e.rowsBefore[e.visited[n]].note :
                    n \in {m \in 1..Len(e.visited) : e.rowsBefore[e.visited[m]].hasNote} }

\* C12: the labels a Summarize.run call has totalled are, for the note texts
\* of the shape prefix ": " rest, the text from its start up to the first
\* ": "; a note text not of that shape adds no label and raises no error.
C12_LabelIsPrefixToFirstColon ==
    \A i \in CallsOf("Summarize") :
        LET e == calls[i]
        IN  /\ e.sum.looped =>
                  Keys(e.sum.totals)
                    = {LabelPrefix(t) : t \in {u \in NotesRead(e) : HasLabelShape(u)}}
            /\ (~ e.sum.looped /\ e.sum.n > 0) =>
                  LET row == e.rowsBefore[e.visited[Len(e.visited)]]
                  IN  ~ (row.hasNote /\ ~ HasLabelShape(row.note))

(***************************************************************************)
(* Template.render and Template.renderObject on their own (specification   *)
(* SpecTemplate): the arguments are drawn by the initial state.            *)
(***************************************************************************)
MaxKeys == 2

T_a    == <<"{", "a", "}">>
T_aab  == <<"x", "{", "a", "}", "y", "{", "a", "}", "{", "b", "}">>
T_kv   == <<"{", "k", "e", "y", "}", "=", "{", "v", "a", "l", "u", "e", "}", ";">>
T_html == <<"<", "b", ">", "{", "a", "}", "<", "/", "b", ">", "{", "c", "}">>

Templates == {T_a, T_aab, T_kv, T_html}

TemplateKeys == {<<"a">>, <<"b">>, <<"1">>, S_hasOwnProperty}

TemplateValues ==
    { <<"v">>, <<"<", "&", ">">>, <<"\"", "'", "/">>, <<"{", "b", "}">>,
      <<"$", "&">>, <<"&", "l", "t", ";">> }

Pairs == [k : TemplateKeys, v : TemplateValues]

\* objects with at most n own properties
Mappings(n) ==
    UNION { {d \in [1..m -> Pairs] : \A i, j \in 1..m : i # j => d[i].k # d[j].k}
            : m \in 0..n }

InitTemplate ==
    /\ docRows = << >> /\ anchor = FALSE /\ inserted = << >>
    /\ hooks = << >> /\ pc = "template" /\ hookIdx = 0
    /\ rows = QueryResult(<< >>, 0) /\ nQueries = 0 /\ calls = << >> /\ err = "none"
    /\ QueryIdle
    /\ tT \in Templates
    /\ tD \in Mappings(MaxKeys)
    /\ tRaw \in BOOLEAN
    /\ tOut = NoResult
    /\ tObj = NoResult

\* Template.render(tT, tD, tRaw)
CallRender ==
    /\ pc = "template"
    /\ tOut = NoResult
    /\ tOut' = Render(tT, tD, tRaw)
    /\ UNCHANGED <<docVars, dispatchVars, tT, tD, tRaw, tObj, queryVars>>

\* Template.renderObject(tT, tD, tRaw)
CallRenderObject ==
    /\ pc = "template"
    /\ tObj = NoResult
    /\ tObj' = RenderObject(tT, tD, tRaw)
    /\ UNCHANGED <<docVars, dispatchVars, tT, tD, tRaw, tOut, queryVars>>

NextTemplate == CallRender \/ CallRenderObject

SpecTemplate == InitTemplate /\ [][NextTemplate]_vars

HtmlSpecial == {"<", ">", "&", "\"", "'"}

NoHtmlSpecial(s) == \A i \in 1..Len(s) : s[i] \notin HtmlSpecial

\* each character's entity, one character at a time
EntityOf(c) == CASE c = "&"  -> ENT_AMP  [] c = "\"" -> ENT_QUOT [] c = "'" -> ENT_APOS
                 [] c = "<"  -> ENT_LT   [] c = ">"  -> ENT_GT   [] c = "/" -> ENT_SOL
                 [] OTHER -> <<c>>

RECURSIVE Entities1(_, _)
Entities1(s, i) == IF i > Len(s) THEN << >> ELSE EntityOf(s[i]) \o Entities1(s, i + 1)

\* C5: when render(T, D, raw = false) returns for a template without HTML
\* special characters, its result holds no <, >, " or ', every & in it begins
\* one of the entities, and each value of D is escaped character by character
\* (an & written by the escaping is never escaped again).
C5_RenderEscapes ==
    (tOut.err = "none" /\ ~ tRaw /\ NoHtmlSpecial(tT)) =>
        /\ \A i \in 1..Len(tOut.out) :
               /\ tOut.out[i] \notin {"<", ">", "\"", "'"}
               /\ tOut.out[i] = "&" => EntityAt(tOut.out, i)
        /\ \A n \in 1..Len(tD) :
               /\ Escape(tD[n].v) = Entities1(tD[n].v, 1)
               /\ HtmlDecode(Escape(tD[n].v)) = tD[n].v

\* render has returned the escaped form of a value with <, & and >
C5_Witness ==
    /\ tOut.err = "none" /\ ~ tRaw
    /\ tT = T_aab
    /\ Len(tD) = 2 /\ tD[1].k = <<"a">> /\ tD[1].v = <<"<", "&", ">">>
    /\ tD[2].v = <<"\"", "'", "/">>
    /\ Contains(tOut.out, ENT_LT \o ENT_AMP \o ENT_GT)
    /\ Contains(tOut.out, ENT_QUOT \o ENT_APOS)

\* the key of D whose placeholder stands at index i of the template, if any
PlaceholderKeysAt(template, data, i) ==
    {k \in Keys(data) : MatchAt(template, Placeholder(k), i)}

\* every placeholder of the template replaced at once by its value
RECURSIVE Substituted(_, _, _, _)
Substituted(template, data, raw, i) ==
    IF i > Len(template) THEN << >>
    ELSE IF PlaceholderKeysAt(template, data, i) # {}
         THEN LET k == CHOOSE x \in PlaceholderKeysAt(template, data, i) : TRUE
                  v == IF raw THEN Get(data, k) ELSE Entities1(Get(data, k), 1)
              IN  v \o Substituted(template, data, raw, i + Len(Placeholder(k)))
         ELSE <<template[i]>> \o Substituted(template, data, raw, i + 1)

\* C6: render(T, D, raw) raises no error and returns T with every occurrence
\* of every {k}, k a key of D, replaced by D[k] (escaped unless raw) and all
\* other text unchanged, whatever the values hold and whatever the key order.
\* (Stated here for data whose keys are names: no key of digits only, no key
\* hasOwnProperty.)
C6_RenderSubstitutesAll ==
    (/\ tOut # NoResult
     /\ \A n \in 1..Len(tD) : ~ IsDecimalDigits(tD[n].k) /\ tD[n].k # S_hasOwnProperty)
        => tOut = Ok(Substituted(tT, tD, tRaw, 1))

RECURSIVE PerEntryFrom(_, _, _, _)
PerEntryFrom(template, data, raw, i) ==
    IF i > Len(data) THEN << >>
    ELSE Render(template,
                << [k |-> S_key, v |-> data[i].k], [k |-> S_value, v |-> data[i].v] >>,
                raw).out
           \o PerEntryFrom(template, data, raw, i + 1)

\* C7: renderObject(T, D, raw) is the concatenation, in the insertion order of
\* D's entries, of render(T, {key: k, value: v}, raw); the empty string for {}.
\* (Stated here for data without a key hasOwnProperty.)
C7_RenderObjectInsertionOrder ==
    (tObj # NoResult /\ ~ HasOwn(tD, S_hasOwnProperty)) =>
        tObj = Ok(PerEntryFrom(tT, tD, tRaw, 1))

(***************************************************************************)
(* QueryResult on its own (specification SpecQuery): a QueryResult is made *)
(* once and its methods are called again and again with callbacks that     *)
(* change the nodes.                                                       *)
(***************************************************************************)
MaxCalls == 2

QueryRowKinds ==
    { Row(TRUE, TRUE, N_Ax, TRUE, H_150, <<"entry">>),
      Row(TRUE, TRUE, N_By, TRUE, H_225, <<HIGHLIGHT_CLASS, "entry">>),
      Row(FALSE, TRUE, N_misc, TRUE, H_150, <<"entry">>) }

\* callbacks: the one of Highlight.run; one that changes the row so that
\* ADMIN_ROWS matches it no more; one that only reads
Callbacks == {"mark", "unmatch", "read"}

CallbackEffect(row, cb) ==
    CASE cb = "mark"    -> [row EXCEPT !.classList = ClassListAdd(@, HIGHLIGHT_CLASS)]
      [] cb = "unmatch" -> [row EXCEPT !.admin = FALSE]
      [] cb = "read"    -> row

RECURSIVE ApplyEach(_, _, _)
ApplyEach(doc, nodes, cb) ==
    IF nodes = << >> THEN doc
    ELSE Bind([doc EXCEPT ![nodes[1]] = CallbackEffect(@, cb)], LAMBDA d :
              Bind(Tail(nodes), LAMBDA rest : ApplyEach(d, rest, cb)))

InitQuery ==
    /\ docRows \in SeqsUpTo(QueryRowKinds, MaxRows)
    /\ anchor = FALSE /\ inserted = << >>
    /\ hooks = << >> /\ pc = "query" /\ hookIdx = 0
    /\ rows = FindAll(docRows, 1)
    /\ nQueries = 1 /\ calls = << >> /\ err = "none"
    /\ TemplateIdle
    /\ qlog = << >>
    /\ snap0 = Evaluate(docRows, 1)

\* rows.forEach(cb): the nodes handed to cb, and the value returned
CallForEach(cb) ==
    /\ pc = "query" /\ Len(qlog) < MaxCalls
    /\ \E nodes \in {ForEachNodes(rows)} :
         /\ docRows' = ApplyEach(docRows, nodes, cb)
         /\ qlog' = Append(qlog, [op |-> "forEach", cb |-> cb, visited |-> nodes,
                                  result |-> << >>, ret |-> rows.id])
    /\ UNCHANGED <<anchor, inserted, dispatchVars, templateVars, snap0>>

\* rows.map(cb), cb returning the node it was given
CallMap(cb) ==
    /\ pc = "query" /\ Len(qlog) < MaxCalls
    /\ \E nodes \in {ForEachNodes(rows)} :
         /\ docRows' = ApplyEach(docRows, nodes, cb)
         /\ qlog' = Append(qlog, [op |-> "map", cb |-> cb, visited |-> nodes,
                                  result |-> Map(rows, LAMBDA item : item), ret |-> 0])
    /\ UNCHANGED <<anchor, inserted, dispatchVars, templateVars, snap0>>

\* rows.all()
CallAll ==
    /\ pc = "query" /\ Len(qlog) < MaxCalls
    /\ qlog' = Append(qlog, [op |-> "all", cb |-> "read", visited |-> ForEachNodes(rows),
                             result |-> All(rows), ret |-> 0])
    /\ UNCHANGED <<docVars, dispatchVars, templateVars, snap0>>

NextQuery ==
    \/ \E cb \in Callbacks : CallForEach(cb)
    \/ \E cb \in Callbacks : CallMap(cb)
    \/ CallAll

SpecQuery == InitQuery /\ [][NextQuery]_vars

\* C9: the length of a QueryResult is the number of nodes matched when it was
\* made; every forEach, map and all call on it, however many and whatever the
\* callbacks did to the nodes before or meanwhile, goes through exactly those
\* nodes once each in snapshot order; forEach returns the QueryResult and all
\* returns as many nodes as length says.
C9_SnapshotStable ==
    /\ rows.length = Len(snap0)
    /\ \A i \in 1..Len(qlog) :
           /\ qlog[i].visited = snap0
           /\ qlog[i].op = "forEach" => qlog[i].ret = rows.id
           /\ qlog[i].op \in {"map", "all"} =>
                  /\ qlog[i].result = snap0
                  /\ Len(qlog[i].result) = rows.length

\* all() was called after a forEach whose callback made two matched rows stop
\* matching the row query
C9_Witness ==
    /\ Len(qlog) = 2
    /\ qlog[1].op = "forEach" /\ qlog[1].cb = "unmatch"
    /\ qlog[2].op = "all"
    /\ Len(snap0) = 2
    /\ Evaluate(docRows, 1) = << >>
    /\ Len(qlog[2].result) = 2

=============================================================================
